---------------------------- MODULE Spec2Model ----------------------------
(***************************************************************************)
(* Granabox backend: financial items, labels and monthly recurring series. *)
(*                                                                         *)
(* The record store is the SQLite database behind Flask-SQLAlchemy.  One   *)
(* action is one HTTP request handled to completion (handler body plus the *)
(* final db.session.commit(), or the early return that discards the        *)
(* session).  Dates are Python date objects <<year, month, day>>; instants *)
(* are whole hours since 0001-01-01 00:00 UTC; a pytz zone is its UTC      *)
(* offset in hours.  A request reads the clock once.                       *)
(*                                                                         *)
(* Strings are the source's strings with accents dropped                   *)
(* ("VENCE AMANHA" for 'VENCE AMANHÃ').                                    *)
(***************************************************************************)
EXTENDS Integers, Sequences, FiniteSets, TLC

(***************************************************************************)
(* Bounds of the model.                                                    *)
(***************************************************************************)
MaxItems == 3
MaxOps == 3
MaxItemOps == 2
MaxFieldOps == 4
MaxAhead == 5
MaxQueryOps == 3
MaxErrorOps == 2
MaxServed == 2
MaxSharedOps == 3
MaxCountOps == 2
MaxFrameOps == 4
MaxDefaultItems == 12

(***************************************************************************)
(* Encodings of Python's None / absent form fields.                        *)
(***************************************************************************)
NoDate == <<0, 0, 0>>
NoResult == "-"

\* a due_date text that datetime.strptime(text, "%Y-%m-%d") rejects, such as
\* "2024-01-31T00:00:00", and an amount text that float(text) rejects
BadDate == <<2024, 1, 31, 0>>
BadAmount == -1

(***************************************************************************)
(* datetime.date arithmetic.                                               *)
(***************************************************************************)
IsLeap(y) == (y % 4 = 0) /\ ((y % 100 # 0) \/ (y % 400 = 0))

DaysInMonth(y, m) ==
    IF m = 2 THEN (IF IsLeap(y) THEN 29 ELSE 28)
    ELSE IF m \in {4, 6, 9, 11} THEN 30 ELSE 31

\* days of the year before the first day of month m
DaysBeforeMonth(y, m) ==
    <<0, 31, 59, 90, 120, 151, 181, 212, 243, 273, 304, 334>>[m]
    + (IF m > 2 /\ IsLeap(y) THEN 1 ELSE 0)

\* date.toordinal(): 0001-01-01 is day 1
ToOrdinal(d) ==
    LET y == d[1] - 1
    IN  365 * y + (y \div 4) - (y \div 100) + (y \div 400)
        + DaysBeforeMonth(d[1], d[2]) + d[3]

Min(a, b) == IF a <= b THEN a ELSE b

\* date + relativedelta(months=k): the month is moved by k, the year carries,
\* and the day is clamped to the last day of the target month
AddMonths(d, k) ==
    LET total == d[1] * 12 + (d[2] - 1) + k
        y == total \div 12
        m == (total % 12) + 1
    IN  <<y, m, Min(d[3], DaysInMonth(y, m))>>

(***************************************************************************)
(* time_utils.get_user_timezone: the TimeZone header names a pytz zone;    *)
(* a missing header or a name pytz rejects yields UTC.                     *)
(***************************************************************************)
KnownZones == {"UTC", "America/Sao_Paulo", "Asia/Tokyo"}

get_user_timezone(header) ==
    IF header \in KnownZones THEN header ELSE "UTC"

\* UTC offset of the zone in hours (none of the three observes DST)
UtcOffset(zone) ==
    CASE zone = "America/Sao_Paulo" -> -3
      [] zone = "Asia/Tokyo" -> 9
      [] OTHER -> 0

\* instant.astimezone(zone).date() as an ordinal
LocalOrdinal(instant, zone) == (instant + UtcOffset(zone)) \div 24

\* datetime.combine(d, time.min).replace(tzinfo=UTC) as an instant
MidnightUtc(d) == ToOrdinal(d) * 24

DueInDays(n) ==
    IF n = 2 THEN "A VENCER EM 2 DIAS" ELSE "A VENCER EM 3 DIAS"

DaysDifference(due_date, zone, instant) ==
    LocalOrdinal(MidnightUtc(due_date), zone) - LocalOrdinal(instant, zone)

\* the last "A VENCER EM n DIAS" day cut one short
StatusOfDifferenceShort(days_difference) ==
    IF days_difference < 0 THEN "VENCIDO"
    ELSE IF days_difference = 0 THEN "VENCE HOJE"
    ELSE IF days_difference = 1 THEN "VENCE AMANHA"
    ELSE IF days_difference < 3 THEN DueInDays(days_difference)
    ELSE "A PAGAR"

StatusOfDifference(days_difference) ==
    IF days_difference < 0 THEN "VENCIDO"
    ELSE IF days_difference = 0 THEN "VENCE HOJE"
    ELSE IF days_difference = 1 THEN "VENCE AMANHA"
    ELSE IF days_difference <= 3 THEN DueInDays(days_difference)
    ELSE "A PAGAR"

\* the date compared before the type is looked at
calculate_due_status_date_first(due_date, zone, item_type, instant) ==
    IF DaysDifference(due_date, zone, instant) < 0 THEN "VENCIDO"
    ELSE IF item_type \in {"income", "Rendimentos"} THEN ""
    ELSE IF item_type \in {"paid-expenses", "Pago"} THEN "PAGO"
    ELSE StatusOfDifference(DaysDifference(due_date, zone, instant))

calculate_due_status(due_date, zone, item_type, instant) ==
    IF item_type \in {"income", "Rendimentos"} THEN ""
    ELSE IF item_type \in {"paid-expenses", "Pago"} THEN "PAGO"
    ELSE StatusOfDifference(DaysDifference(due_date, zone, instant))


(***************************************************************************)
(* State.                                                                  *)
(*   labels  the labels table: id -> [name, is_default]                    *)
(*   items   the items table: id -> row (recurrence_id 0, months 0 and     *)
(*           label_id 0 stand for NULL); the column `recurrence` is        *)
(*           written but never read by any handler and is left out         *)
(*   nuuid   number of uuid4 values drawn so far; the k-th draw is k       *)
(*   nops    number of item requests handled so far; an hour passes        *)
(*           between two of them, which makes nops the clock as well       *)
(*   last    the last request and its response                             *)
(*   pre     the items table as it was before the last request             *)
(*   pre_labels  the labels table as it was before the last request        *)
(*   q, r    the argument and the result of a direct call of               *)
(*           calculate_due_status                                          *)
(*   seen    the last answer to GET /item/recurring, with the clock (nops) *)
(*           and the committed items table (store) of that moment, and     *)
(*           whether a write transaction was open (dirty)                  *)
(*   session the requests that are handled step by step, one per worker    *)
(*           thread: pc, where the handler is; served, the requests the    *)
(*           thread has taken; req, the request; item and label, the row   *)
(*           the db.session loaded by its id; future, remaining and rows,  *)
(*           what its later queries returned; base, the items table when   *)
(*           the request came in; work, the items table as the open        *)
(*           transaction of the thread has it                              *)
(*   lock    the thread whose connection holds SQLite's write lock, or 0   *)
(***************************************************************************)
VARIABLES labels, items, nuuid, nops, last, pre, pre_labels, q, r, seen, session, lock

vars == <<labels, items, nuuid, nops, last, pre, pre_labels, q, r, seen, session, lock>>

Max(S) == CHOOSE x \in S : \A y \in S : y <= x

\* SQLite INTEGER PRIMARY KEY without AUTOINCREMENT: largest rowid plus one
NextId(table) == IF DOMAIN table = {} THEN 1 ELSE Max(DOMAIN table) + 1

\* restriction of a table to a set of ids
Restrict(table, S) == [i \in S |-> table[i]]

NoRequest ==
    [op |-> "none", code |-> 0, id |-> 0, label_id |-> 0, type |-> "",
     description |-> "", amount |-> 0, due_date |-> NoDate, months |-> 0,
     zone |-> "UTC", instant |-> 0, recurrence_id |-> 0, name |-> "",
     is_default |-> "", loc |-> "", header |-> ""]

\* the clock as the service starts: 2024-01-30 22:00 UTC
StartInstant == MidnightUtc(<<2024, 1, 30>>) + 22

\* datetime.now(UTC) as the current request reads it
now == StartInstant + nops

NoQuery == [due_date |-> NoDate, zone |-> "UTC", type |-> "", instant |-> 0]

\* no GET /item/recurring answered yet
NoAnswer == [recurrence_id |-> 0, header |-> "UTC", code |-> 0,
             rows |-> << >>, nops |-> 0, dirty |-> FALSE, store |-> << >>]

\* the worker threads, and a thread that handles no request
Threads == 1..2
Idle ==
    [pc |-> "idle", served |-> 0, req |-> NoRequest, item |-> << >>,
     label |-> << >>, future |-> {}, remaining |-> << >>, rows |-> << >>,
     base |-> << >>, work |-> << >>]

Init ==
    /\ labels = << >>
    /\ items = << >>
    /\ nuuid = 0
    /\ nops = 0
    /\ last = NoRequest
    /\ pre = << >>
    /\ pre_labels = << >>
    /\ q = NoQuery
    /\ r = NoResult
    /\ seen = NoAnswer
    /\ session = [t \in Threads |-> Idle]
    /\ lock = 0

(***************************************************************************)
(* A handler that returns before db.session.commit() leaves its changes in *)
(* the session; the session is removed when the request's application      *)
(* context is torn down, which rolls the changes back.                     *)
(***************************************************************************)
\* the changes of the session kept in the table
RollbackKept(committed, changed) == changed

Rollback(committed, changed) == committed

(***************************************************************************)
(* POST /label                                                             *)
(***************************************************************************)
\* a name check that finds no label
LabelWithNameNone(name) == {}

\* Label.query.filter_by(name=name)
LabelWithName(name) == {l \in DOMAIN labels : labels[l].name = name}

\* is_default arrives as text: "true" or "false" (any letter case; the inputs
\* here are lower case already), anything else is refused
add_label(name, is_default_value) ==
    LET req == [NoRequest EXCEPT !.op = "add_label", !.instant = now,
                   !.name = name, !.is_default = is_default_value]
    IN  /\ pre' = items
        /\ pre_labels' = labels
        /\ IF is_default_value \notin {"true", "false"}
           THEN /\ last' = [req EXCEPT !.code = 400, !.loc = "is_default"]
                /\ UNCHANGED labels
           ELSE IF LabelWithName(name) # {}
           THEN /\ last' = [req EXCEPT !.code = 400, !.loc = "name"]
                /\ UNCHANGED labels
           ELSE /\ labels' = [l \in DOMAIN labels \cup {NextId(labels)} |->
                                 IF l \in DOMAIN labels THEN labels[l]
                                 ELSE [name |-> name,
                                       is_default |-> (is_default_value = "true")]]
                /\ last' = [req EXCEPT !.code = 201, !.id = NextId(labels)]
        /\ UNCHANGED <<items, nuuid, nops, q, r, seen, session, lock>>

(***************************************************************************)
(* PUT /label.  An absent form field is "".                                *)
(***************************************************************************)
\* Label.query.filter(Label.name == name, Label.id != label_id)
OtherLabelWithName(table, name, label_id) ==
    {l \in DOMAIN table : table[l].name = name /\ l # label_id}

edit_label(id, name, is_default_value) ==
    LET req == [NoRequest EXCEPT !.op = "edit_label", !.id = id,
                   !.name = name, !.is_default = is_default_value,
                   !.instant = now]
        defaulted == IF is_default_value = "" THEN labels
                     ELSE [labels EXCEPT ![id].is_default =
                              (is_default_value = "true")]
    IN  /\ pre' = items
        /\ pre_labels' = labels
        /\ IF id \notin DOMAIN labels
           THEN /\ last' = [req EXCEPT !.code = 404, !.loc = "id"]
                /\ UNCHANGED labels
           ELSE IF is_default_value \notin {"", "true", "false"}
           THEN /\ last' = [req EXCEPT !.code = 400, !.loc = "is_default"]
                /\ UNCHANGED labels
           ELSE IF name # "" /\ OtherLabelWithName(labels, name, id) # {}
           THEN /\ last' = [req EXCEPT !.code = 400, !.loc = "name"]
                /\ labels' = Rollback(labels, defaulted)
           ELSE /\ labels' = [defaulted EXCEPT ![id].name =
                                 IF name # "" THEN name ELSE @]
                /\ last' = [req EXCEPT !.code = 200]
        /\ UNCHANGED <<items, nuuid, nops, q, r, seen, session, lock>>

(***************************************************************************)
(* POST /item/recurring                                                    *)
(***************************************************************************)
\* every label id taken for the id of a stored label
LabelMissingNever(label_id) == FALSE

\* not Label.query.get(label_id)
LabelMissing(label_id) == label_id \notin DOMAIN labels

\* the request has no field months: form.get("months") is None
NoMonths == -1000

\* int(form.get("months")) raises TypeError
MonthsUnreadable(months) == months = NoMonths

\* the table holds MaxItems rows, and MaxDefaultItems when a request leaves
\* the count of its series to the handler
Capacity(months) == IF months = 0 THEN MaxDefaultItems ELSE MaxItems

\* the count taken as it is given, zero included
MonthsToCreateAsGiven(months) == months

\* int(form.get("months")) or 12
MonthsToCreate(months) == IF months = 0 THEN 12 ELSE months

\* a loop that counts up, range(1, months_to_create + 1)
LoopIndexAscending(n, k) == k + 1

\* the values of i in range(months_to_create, 0, -1), as offsets 0, 1, ...
\* from the first created item: the k-th created item has i = n - k
LoopIndex(n, k) == n - k

\* each due date derived from the previous item's due date
RECURSIVE NextDueDateChained(_, _, _)
NextDueDateChained(start_date, n, i) ==
    IF i >= n THEN start_date
    ELSE AddMonths(NextDueDateChained(start_date, n, i + 1), 1)

\* start_date + relativedelta(months=(months_to_create - i))
NextDueDate(start_date, n, i) == AddMonths(start_date, n - i)

\* months=i
MonthsField(i) == i

\* str(uuid.uuid4())
NewRecurrenceId == nuuid + 1

NewRecurringRow(label_id, type, description, amount, start_date, n, i, zone, recurrence_id) ==
    [recurrence_id |-> recurrence_id,
     months |-> MonthsField(i),
     type |-> type,
     description |-> description,
     amount |-> amount,
     due_date |-> NextDueDate(start_date, n, i),
     due_status |-> calculate_due_status(NextDueDate(start_date, n, i),
                                         zone, type, now),
     transaction_date |-> now,
     label_id |-> label_id]

\* the table after the loop and the commit: rows first .. first + n - 1
RecurringRows(label_id, type, description, amount, start_date, n, zone, recurrence_id) ==
    LET first == NextId(items)
        new == IF n >= 1 THEN first .. (first + n - 1) ELSE {}
    IN  [id \in DOMAIN items \cup new |->
            IF id \in DOMAIN items THEN items[id]
            ELSE NewRecurringRow(label_id, type, description, amount,
                                 start_date, n, LoopIndex(n, id - first),
                                 zone, recurrence_id)]

add_recurring_item(label_id, type, description, amount, due_date, months, header) ==
    LET n == MonthsToCreate(months)
        zone == get_user_timezone(header)
        req == [NoRequest EXCEPT !.op = "add_recurring_item",
                   !.label_id = label_id, !.type = type,
                   !.description = description, !.amount = amount,
                   !.due_date = due_date, !.months = months,
                   !.header = header, !.zone = zone,
                   !.instant = now]
    IN  /\ nops' = nops + 1
        /\ pre' = items
        /\ pre_labels' = labels
        /\ IF LabelMissing(label_id)
           THEN /\ last' = [req EXCEPT !.code = 404]
                /\ UNCHANGED <<items, nuuid>>
           ELSE IF MonthsUnreadable(months)
           THEN /\ last' = [req EXCEPT !.code = 500]
                /\ UNCHANGED <<items, nuuid>>
           ELSE /\ Cardinality(DOMAIN items) + n <= Capacity(months)
                /\ items' = RecurringRows(label_id, type, description, amount,
                                          due_date, n, zone, NewRecurrenceId)
                /\ nuuid' = nuuid + 1
                /\ last' = [req EXCEPT !.code = 201, !.id = NextId(items),
                                       !.recurrence_id = NewRecurrenceId]
        /\ UNCHANGED <<labels, q, r, seen, session, lock>>

(***************************************************************************)
(* PUT /item/recurring                                                     *)
(***************************************************************************)
\* every item taken for an item of a series
NotRecurringNever(row) == FALSE

\* not item.recurrence_id
NotRecurring(row) == row.recurrence_id = 0

DateLE(a, b) == ToOrdinal(a) <= ToOrdinal(b)
DateLT(a, b) == ToOrdinal(a) < ToOrdinal(b)

\* the anchor after the request's overrides are applied to it; due_date is
\* not assigned here, it keeps the stored value until the loop
OverriddenAnchor(row, label_id, type, description, amount, instant) ==
    [row EXCEPT
        !.label_id = IF label_id # 0 THEN label_id ELSE @,
        !.type = IF type # "" THEN type ELSE @,
        !.description = IF description # "" THEN description ELSE @,
        !.amount = IF amount # 0 THEN amount ELSE @,
        !.transaction_date = instant]

\* the whole series, whatever the due dates
EditFutureItemsWholeSeries(table, recurrence_id, anchor_due) ==
    {i \in DOMAIN table : table[i].recurrence_id = recurrence_id}

\* every item due on or after the anchor, of whatever series or of none
EditFutureItemsAnySeries(table, recurrence_id, anchor_due) ==
    {i \in DOMAIN table : DateLE(anchor_due, table[i].due_date)}

\* Item.query.filter(recurrence_id == item.recurrence_id,
\*                   due_date >= item.due_date)
EditFutureItems(table, recurrence_id, anchor_due) ==
    {i \in DOMAIN table :
        /\ table[i].recurrence_id = recurrence_id
        /\ DateLE(anchor_due, table[i].due_date)}

\* new_due_date + relativedelta(months=(int(future_item.id) - item_id))
ShiftedDueDate(new_due_date, future_id, item_id) ==
    AddMonths(new_due_date, future_id - item_id)

\* one pass of the loop body over future_item, item being the anchor
UpdatedFutureRow(future_row, future_id, item, item_id, new_due_date, zone, instant) ==
    LET label_id == IF item.label_id # 0 THEN item.label_id
                    ELSE future_row.label_id
        type == IF item.type # "" THEN item.type ELSE future_row.type
        description == IF item.description # "" THEN item.description
                       ELSE future_row.description
        amount == IF item.amount # 0 THEN item.amount ELSE future_row.amount
        due == ShiftedDueDate(new_due_date, future_id, item_id)
    IN  [future_row EXCEPT
            !.label_id = label_id,
            !.type = type,
            !.description = description,
            !.amount = amount,
            !.due_date = due,
            !.due_status = calculate_due_status(due, zone, type, instant),
            !.transaction_date = instant]

EditedRows(table, item_id, label_id, type, description, amount, due_date, zone, instant) ==
    LET item == OverriddenAnchor(table[item_id], label_id, type, description,
                                 amount, instant)
        new_due_date == IF due_date # NoDate THEN due_date
                        ELSE table[item_id].due_date
        flushed == [table EXCEPT ![item_id] = item]
        future == EditFutureItems(flushed, item.recurrence_id, item.due_date)
    IN  [i \in DOMAIN table |->
            IF i \in future
            THEN UpdatedFutureRow(flushed[i], i, item, item_id, new_due_date,
                                  zone, instant)
            ELSE flushed[i]]

edit_recurring_items(id, label_id, type, description, amount, due_date, header) ==
    LET zone == get_user_timezone(header)
        req == [NoRequest EXCEPT !.op = "edit_recurring_items", !.id = id,
                   !.label_id = label_id, !.type = type,
                   !.description = description, !.amount = amount,
                   !.due_date = due_date,
                   !.header = header, !.zone = zone, !.instant = now]
    IN  /\ nops' = nops + 1
        /\ pre' = items
        /\ pre_labels' = labels
        /\ IF id \notin DOMAIN items
           THEN /\ last' = [req EXCEPT !.code = 404]
                /\ UNCHANGED items
           ELSE IF NotRecurring(items[id])
           THEN /\ last' = [req EXCEPT !.code = 400, !.loc = "id"]
                /\ UNCHANGED items
           ELSE IF label_id # 0 /\ LabelMissing(label_id)
           THEN /\ last' = [req EXCEPT !.code = 404]
                /\ UNCHANGED items
           ELSE IF due_date = BadDate
           THEN /\ last' = [req EXCEPT !.code = 400, !.loc = "due_date"]
                /\ items' = Rollback(items, [items EXCEPT ![id] =
                                OverriddenAnchor(items[id], label_id, "", "",
                                                 0, items[id].transaction_date)])
           ELSE IF amount = BadAmount
           THEN /\ last' = [req EXCEPT !.code = 400, !.loc = "amount"]
                /\ items' = Rollback(items, [items EXCEPT ![id] =
                                OverriddenAnchor(items[id], label_id, type,
                                                 description, 0,
                                                 items[id].transaction_date)])
           ELSE /\ items' = EditedRows(items, id, label_id, type, description,
                                       amount, due_date, zone, now)
                /\ last' = [req EXCEPT !.code = 200,
                               !.recurrence_id = items[id].recurrence_id]
        /\ UNCHANGED <<labels, nuuid, q, r, seen, session, lock>>

(***************************************************************************)
(* DELETE /item/recurring                                                  *)
(***************************************************************************)
\* the anchor's own date counted as future
DeleteFutureItemsInclusive(table, recurrence_id, anchor_due) ==
    {i \in DOMAIN table :
        /\ table[i].recurrence_id = recurrence_id
        /\ ToOrdinal(anchor_due) <= ToOrdinal(table[i].due_date)}

\* Item.query.filter(recurrence_id == item.recurrence_id,
\*                   due_date > item.due_date)
DeleteFutureItems(table, recurrence_id, anchor_due) ==
    {i \in DOMAIN table :
        /\ table[i].recurrence_id = recurrence_id
        /\ DateLT(anchor_due, table[i].due_date)}

\* Item.query.filter(recurrence_id == item.recurrence_id,
\*                   due_date <= item.due_date)
RemainingItems(table, recurrence_id, anchor_due) ==
    {i \in DOMAIN table :
        /\ table[i].recurrence_id = recurrence_id
        /\ DateLE(table[i].due_date, anchor_due)}

\* .order_by(Item.due_date).all(): the rows of S in ascending due date; SQL
\* leaves the order of rows with equal due dates open
OrderedByDueDate(table, S) ==
    {s \in [1..Cardinality(S) -> S] :
        /\ \A i, j \in 1..Cardinality(S) : i # j => s[i] # s[j]
        /\ \A i, j \in 1..Cardinality(S) :
              i < j => DateLE(table[s[i]].due_date, table[s[j]].due_date)}

\* remaining_item.months = len(remaining_items) - i + 1, i from 1
RenumberedMonths(len, i) == len - i + 1

Position(s, x) == CHOOSE i \in DOMAIN s : s[i] = x

RenumberedRows(table, remaining_items) ==
    [i \in DOMAIN table |->
        IF \E k \in DOMAIN remaining_items : remaining_items[k] = i
        THEN [table[i] EXCEPT !.months =
                RenumberedMonths(Len(remaining_items),
                                 Position(remaining_items, i))]
        ELSE table[i]]

remove_recurring_items(id) ==
    LET req == [NoRequest EXCEPT !.op = "remove_recurring_items", !.id = id,
                   !.instant = now]
    IN  /\ nops' = nops + 1
        /\ pre' = items
        /\ pre_labels' = labels
        /\ IF id \notin DOMAIN items
           THEN /\ last' = [req EXCEPT !.code = 404]
                /\ UNCHANGED items
           ELSE IF NotRecurring(items[id])
           THEN /\ last' = [req EXCEPT !.code = 400, !.loc = "id"]
                /\ UNCHANGED items
           ELSE LET item == items[id]
                    future == DeleteFutureItems(items, item.recurrence_id,
                                                item.due_date)
                    kept == Restrict(items, DOMAIN items \ future)
                    remaining == RemainingItems(kept, item.recurrence_id,
                                                item.due_date)
                IN  /\ \E remaining_items \in OrderedByDueDate(kept, remaining) :
                          items' = RenumberedRows(kept, remaining_items)
                    /\ last' = [req EXCEPT !.code = 200,
                                   !.recurrence_id = item.recurrence_id]
        /\ UNCHANGED <<labels, nuuid, q, r, seen, session, lock>>

(***************************************************************************)
(* POST /item, PUT /item, PUT /item/status, DELETE /item                   *)
(***************************************************************************)
NewItemRow(label_id, type, description, amount, due_date, zone, instant) ==
    [recurrence_id |-> 0,
     months |-> 0,
     type |-> type,
     description |-> description,
     amount |-> amount,
     due_date |-> due_date,
     due_status |-> calculate_due_status(due_date, zone, type, instant),
     transaction_date |-> instant,
     label_id |-> label_id]

add_item(label_id, type, description, amount, due_date, header) ==
    LET zone == get_user_timezone(header)
        req == [NoRequest EXCEPT !.op = "add_item", !.label_id = label_id,
                   !.type = type, !.description = description,
                   !.amount = amount, !.due_date = due_date,
                   !.header = header, !.zone = zone,
                   !.instant = now]
    IN  /\ nops' = nops + 1
        /\ pre' = items
        /\ pre_labels' = labels
        /\ IF LabelMissing(label_id)
           THEN /\ last' = [req EXCEPT !.code = 404]
                /\ UNCHANGED items
           ELSE /\ Cardinality(DOMAIN items) < MaxItems
                /\ items' = [i \in DOMAIN items \cup {NextId(items)} |->
                                IF i \in DOMAIN items THEN items[i]
                                ELSE NewItemRow(label_id, type, description,
                                                amount, due_date, zone, now)]
                /\ last' = [req EXCEPT !.code = 201, !.id = NextId(items)]
        /\ UNCHANGED <<labels, nuuid, q, r, seen, session, lock>>

EditedItemRow(row, label_id, type, description, amount, due_date, zone, instant) ==
    LET new_type == IF type # "" THEN type ELSE row.type
        due == IF due_date # NoDate THEN due_date ELSE row.due_date
    IN  [row EXCEPT
            !.label_id = IF label_id # 0 THEN label_id ELSE @,
            !.due_date = due,
            !.type = new_type,
            !.description = IF description # "" THEN description ELSE @,
            !.amount = IF amount # 0 THEN amount ELSE @,
            !.transaction_date = instant,
            !.due_status = calculate_due_status(due, zone, new_type, instant)]

edit_item(id, label_id, type, description, amount, due_date, header) ==
    LET zone == get_user_timezone(header)
        req == [NoRequest EXCEPT !.op = "edit_item", !.id = id,
                   !.label_id = label_id, !.type = type,
                   !.description = description, !.amount = amount,
                   !.due_date = due_date,
                   !.header = header, !.zone = zone, !.instant = now]
    IN  /\ nops' = nops + 1
        /\ pre' = items
        /\ pre_labels' = labels
        /\ IF id \notin DOMAIN items
           THEN /\ last' = [req EXCEPT !.code = 404]
                /\ UNCHANGED items
           ELSE IF label_id # 0 /\ LabelMissing(label_id)
           THEN /\ last' = [req EXCEPT !.code = 404]
                /\ UNCHANGED items
           ELSE IF due_date = BadDate
           THEN /\ last' = [req EXCEPT !.code = 400, !.loc = "due_date"]
                /\ items' = Rollback(items, [items EXCEPT ![id] =
                                OverriddenAnchor(items[id], label_id, "", "",
                                                 0, items[id].transaction_date)])
           ELSE IF amount = BadAmount
           THEN /\ last' = [req EXCEPT !.code = 400, !.loc = "amount"]
                /\ items' = Rollback(items, [items EXCEPT ![id] =
                                [OverriddenAnchor(items[id], label_id, type,
                                                  description, 0,
                                                  items[id].transaction_date)
                                    EXCEPT !.due_date =
                                       IF due_date # NoDate THEN due_date
                                       ELSE @]])
           ELSE /\ items' = [items EXCEPT ![id] =
                                EditedItemRow(items[id], label_id, type,
                                              description, amount, due_date,
                                              zone, now)]
                /\ last' = [req EXCEPT !.code = 200]
        /\ UNCHANGED <<labels, nuuid, q, r, seen, session, lock>>

\* the type stored without the due status being recomputed
StatusEditedRowStale(row, type, zone, instant) ==
    [row EXCEPT !.type = type, !.transaction_date = instant]

StatusEditedRow(row, type, zone, instant) ==
    [row EXCEPT
        !.type = type,
        !.transaction_date = instant,
        !.due_status = calculate_due_status(row.due_date, zone, type, instant)]

edit_item_status(id, type, header) ==
    LET zone == get_user_timezone(header)
        req == [NoRequest EXCEPT !.op = "edit_item_status", !.id = id,
                   !.type = type,
                   !.header = header, !.zone = zone, !.instant = now]
    IN  /\ nops' = nops + 1
        /\ pre' = items
        /\ pre_labels' = labels
        /\ IF id \notin DOMAIN items
           THEN /\ last' = [req EXCEPT !.code = 404]
                /\ UNCHANGED items
           ELSE /\ items' = [items EXCEPT ![id] =
                                StatusEditedRow(items[id], type, zone, now)]
                /\ last' = [req EXCEPT !.code = 200]
        /\ UNCHANGED <<labels, nuuid, q, r, seen, session, lock>>

delete_item(id) ==
    LET req == [NoRequest EXCEPT !.op = "delete_item", !.id = id,
                   !.instant = now]
    IN  /\ nops' = nops + 1
        /\ pre' = items
        /\ pre_labels' = labels
        /\ IF id \notin DOMAIN items
           THEN /\ last' = [req EXCEPT !.code = 404]
                /\ UNCHANGED items
           ELSE /\ items' = Restrict(items, DOMAIN items \ {id})
                /\ last' = [req EXCEPT !.code = 200]
        /\ UNCHANGED <<labels, nuuid, q, r, seen, session, lock>>

(***************************************************************************)
(* DELETE /label.  Item.label is a many-to-one relationship with the       *)
(* backref Label.items and no delete cascade, and items.label_id is        *)
(* nullable: on flush the ORM sets label_id of the label's items to NULL.  *)
(***************************************************************************)
OrphanedRows(table, label_id) ==
    [i \in DOMAIN table |->
        IF table[i].label_id = label_id
        THEN [table[i] EXCEPT !.label_id = 0]
        ELSE table[i]]

delete_label(id) ==
    LET req == [NoRequest EXCEPT !.op = "delete_label", !.id = id,
                   !.instant = now]
    IN  /\ nops' = nops + 1
        /\ pre' = items
        /\ pre_labels' = labels
        /\ IF id \notin DOMAIN labels
           THEN /\ last' = [req EXCEPT !.code = 404]
                /\ UNCHANGED <<labels, items>>
           ELSE /\ labels' = Restrict(labels, DOMAIN labels \ {id})
                /\ items' = OrphanedRows(items, id)
                /\ last' = [req EXCEPT !.code = 200]
        /\ UNCHANGED <<nuuid, q, r, seen, session, lock>>

(***************************************************************************)
(* GET /item/recurring.  The SELECT has no ORDER BY: SQLite walks the      *)
(* items table in rowid order, the order of the ids.  A connection reads   *)
(* what is committed; the rows another connection has written and not yet  *)
(* committed are not visible to it.                                        *)
(***************************************************************************)
\* a reader that sees the rows of an open write transaction
VisibleUncommitted(committed, uncommitted) == uncommitted

Visible(committed, uncommitted) == committed

\* the table as the connection holding the write lock has it
Uncommitted == IF lock = 0 THEN items ELSE session[lock].work

\* the ids of S, largest first
DescendingIds(S) ==
    CHOOSE s \in [1..Cardinality(S) -> S] :
        \A i, j \in 1..Cardinality(S) : i < j => s[i] > s[j]

\* the ids of S in rowid order
StoreOrder(S) ==
    CHOOSE s \in [1..Cardinality(S) -> S] :
        \A i, j \in 1..Cardinality(S) : i < j => s[i] < s[j]

\* Item.to_dict() with the transaction_date put on the reader's wall clock
ToDict(table, id, zone) ==
    [id |-> id,
     recurrence_id |-> table[id].recurrence_id,
     months |-> table[id].months,
     type |-> table[id].type,
     description |-> table[id].description,
     amount |-> table[id].amount,
     due_date |-> table[id].due_date,
     due_status |-> table[id].due_status,
     transaction_date |-> table[id].transaction_date + UtcOffset(zone),
     label |-> IF table[id].label_id \in DOMAIN labels
               THEN labels[table[id].label_id].name ELSE "",
     label_id |-> table[id].label_id]

\* pytz.timezone(header) raises UnknownTimeZoneError for a name it does not
\* know, and nothing catches it: the answer is a 500
get_recurring_items_by_recurrence_id(recurrence_id, header) ==
    LET table == Visible(items, Uncommitted)
        recurring_items ==
            StoreOrder({i \in DOMAIN table :
                           table[i].recurrence_id = recurrence_id})
        answer == [NoAnswer EXCEPT !.recurrence_id = recurrence_id,
                                   !.header = header, !.nops = nops,
                                   !.dirty = (lock # 0), !.store = items]
    IN  /\ seen' =
              IF Len(recurring_items) = 0 THEN [answer EXCEPT !.code = 404]
              ELSE IF header \notin KnownZones
              THEN [answer EXCEPT !.code = 500]
              ELSE [answer EXCEPT
                       !.code = 200,
                       !.rows = [k \in 1..Len(recurring_items) |->
                                    ToDict(table, recurring_items[k], header)]]
        /\ UNCHANGED <<labels, items, nuuid, nops, last, pre, pre_labels, q, r, session, lock>>

(***************************************************************************)
(* Direct call of calculate_due_status on the pending argument q.          *)
(***************************************************************************)
Calculate ==
    /\ r = NoResult
    /\ q # NoQuery
    /\ r' = calculate_due_status(q.due_date, get_user_timezone(q.zone),
                                 q.type, q.instant)
    /\ UNCHANGED <<labels, items, nuuid, nops, last, pre, pre_labels, q, seen, session, lock>>

(***************************************************************************)
(* Requests handled step by step on worker threads.  Each thread has its   *)
(* own db.session and its own connection.  The sqlite3 driver opens a      *)
(* transaction with the first INSERT, UPDATE or DELETE of the session, not *)
(* with a SELECT: what a handler reads before its first write is read      *)
(* outside any transaction, and what it loaded by id stays in the session  *)
(* as loaded.  From the first write to the commit or rollback the          *)
(* connection holds SQLite's write lock, and no other connection writes.   *)
(* An UPDATE of a loaded row sets the columns whose assigned value differs *)
(* from the loaded one.                                                    *)
(***************************************************************************)
CanTake(t) ==
    /\ session[t].pc \in {"idle", "done"}
    /\ session[t].served < MaxServed

\* the session of a thread that takes request req
Taken(t, req) == [Idle EXCEPT !.served = session[t].served + 1, !.req = req]

\* the response leaves the thread: code, and loc of the error body
Respond(t, s, code, loc) ==
    /\ session' = [session EXCEPT ![t] =
                      [s EXCEPT !.pc = "done", !.req.code = code,
                                !.req.loc = loc]]
    /\ last' = [s.req EXCEPT !.code = code, !.loc = loc]
    /\ pre' = items
    /\ pre_labels' = labels

\* the handler goes on to its next statement
Continue(t, s, pc) ==
    /\ session' = [session EXCEPT ![t] = [s EXCEPT !.pc = pc]]
    /\ UNCHANGED <<last, pre, pre_labels>>

\* the row after UPDATE ... SET <the columns assigned a new value>
NetWrite(stored, loaded, assigned) ==
    [f \in DOMAIN stored |->
        IF assigned[f] # loaded[f] THEN assigned[f] ELSE stored[f]]

\* a labels table without the UNIQUE constraint on name
UniqueViolationNever(table, name, id) == FALSE

\* labels.name is UNIQUE: the INSERT or UPDATE that would give a second row
\* the name fails with IntegrityError
UniqueViolation(table, name, id) == OtherLabelWithName(table, name, id) # {}

\* POST /label up to the name check
begin_add_label(t, name, is_default_value) ==
    LET s == Taken(t, [NoRequest EXCEPT !.op = "add_label", !.name = name,
                          !.is_default = is_default_value, !.instant = now])
    IN  /\ CanTake(t)
        /\ IF is_default_value \notin {"true", "false"}
           THEN Respond(t, s, 400, "is_default")
           ELSE IF LabelWithName(name) # {}
           THEN Respond(t, s, 400, "name")
           ELSE Continue(t, s, "checked")
        /\ UNCHANGED <<labels, items, nuuid, nops, q, r, seen, lock>>

\* db.session.add(new_label); db.session.commit()
commit_add_label(t) ==
    LET s == session[t]
    IN  /\ s.pc = "checked"
        /\ s.req.op = "add_label"
        /\ lock = 0
        /\ IF UniqueViolation(labels, s.req.name, 0)
           THEN /\ Respond(t, s, 500, "")
                /\ UNCHANGED labels
           ELSE /\ labels' = [l \in DOMAIN labels \cup {NextId(labels)} |->
                                 IF l \in DOMAIN labels THEN labels[l]
                                 ELSE [name |-> s.req.name,
                                       is_default |->
                                          (s.req.is_default = "true")]]
                /\ Respond(t, [s EXCEPT !.req.id = NextId(labels)], 201, "")
        /\ UNCHANGED <<items, nuuid, nops, q, r, seen, lock>>

\* label.is_default differs from what was loaded: the name query flushes it
IsDefaultDirty(loaded, is_default_value) ==
    /\ is_default_value \in {"true", "false"}
    /\ loaded.is_default # (is_default_value = "true")

\* PUT /label up to the name check
begin_edit_label(t, id, name, is_default_value) ==
    LET s == Taken(t, [NoRequest EXCEPT !.op = "edit_label", !.id = id,
                          !.name = name, !.is_default = is_default_value,
                          !.instant = now])
    IN  /\ CanTake(t)
        /\ IF id \notin DOMAIN labels
           THEN Respond(t, s, 404, "id") /\ UNCHANGED lock
           ELSE IF is_default_value \notin {"", "true", "false"}
           THEN Respond(t, s, 400, "is_default") /\ UNCHANGED lock
           ELSE IF name = ""
           THEN Continue(t, [s EXCEPT !.label = labels[id]], "checked")
                /\ UNCHANGED lock
           ELSE /\ IsDefaultDirty(labels[id], is_default_value) => lock = 0
                /\ IF OtherLabelWithName(labels, name, id) # {}
                   THEN Respond(t, s, 400, "name") /\ UNCHANGED lock
                   ELSE /\ Continue(t, [s EXCEPT !.label = labels[id]],
                                    "checked")
                        /\ lock' = IF IsDefaultDirty(labels[id],
                                                     is_default_value)
                                   THEN t ELSE lock
        /\ UNCHANGED <<labels, items, nuuid, nops, q, r, seen>>

\* the label as the handler has assigned it
AssignedLabel(loaded, name, is_default_value) ==
    [name |-> IF name # "" THEN name ELSE loaded.name,
     is_default |-> IF is_default_value = "" THEN loaded.is_default
                    ELSE (is_default_value = "true")]

\* label.name = name; db.session.commit()
commit_edit_label(t) ==
    LET s == session[t]
        id == s.req.id
        assigned == AssignedLabel(s.label, s.req.name, s.req.is_default)
    IN  /\ s.pc = "checked"
        /\ s.req.op = "edit_label"
        /\ assigned # s.label => lock \in {0, t}
        /\ lock' = IF lock = t THEN 0 ELSE lock
        /\ IF assigned = s.label
           THEN Respond(t, s, 200, "") /\ UNCHANGED labels
           ELSE IF id \notin DOMAIN labels
           THEN Respond(t, s, 500, "") /\ UNCHANGED labels
           ELSE IF assigned.name # s.label.name
                   /\ UniqueViolation(labels, assigned.name, id)
           THEN Respond(t, s, 500, "") /\ UNCHANGED labels
           ELSE /\ labels' = [labels EXCEPT ![id] =
                                 NetWrite(labels[id], s.label, assigned)]
                /\ Respond(t, s, 200, "")
        /\ UNCHANGED <<items, nuuid, nops, q, r, seen>>

\* POST /item/recurring up to the commit: the label is looked up, the uuid
\* is drawn and the N Item objects are built and added to the session, in
\* the order they are created; they have no ids yet
begin_add_recurring_item(t, label_id, type, description, amount, due_date, months, header) ==
    LET n == MonthsToCreate(months)
        zone == get_user_timezone(header)
        s == Taken(t, [NoRequest EXCEPT !.op = "add_recurring_item",
                          !.label_id = label_id, !.type = type,
                          !.description = description, !.amount = amount,
                          !.due_date = due_date, !.months = months,
                          !.header = header,
                          !.zone = zone, !.instant = now])
        built == RecurringRows(label_id, type, description, amount, due_date,
                               n, zone, NewRecurrenceId)
    IN  /\ CanTake(t)
        /\ nops' = nops + 1
        /\ IF LabelMissing(label_id)
           THEN Respond(t, s, 404, "label_id") /\ UNCHANGED nuuid
           ELSE IF MonthsUnreadable(months)
           THEN Respond(t, s, 500, "") /\ UNCHANGED nuuid
           ELSE /\ Continue(t, [s EXCEPT
                                   !.req.recurrence_id = NewRecurrenceId,
                                   !.base = items,
                                   !.rows = [k \in 1..n |->
                                                built[NextId(items) + k - 1]]],
                            "loaded")
                /\ nuuid' = nuuid + 1
        /\ UNCHANGED <<labels, items, q, r, seen, lock>>

\* db.session.commit(), first half: the INSERTs, which give the rows their ids
flush_add_recurring_item(t) ==
    LET s == session[t]
        first == NextId(items)
        n == Len(s.rows)
    IN  /\ s.pc = "loaded"
        /\ s.req.op = "add_recurring_item"
        /\ lock = 0
        /\ Cardinality(DOMAIN items) + n <= Capacity(s.req.months)
        /\ lock' = t
        /\ Continue(t, [s EXCEPT
                           !.req.id = first,
                           !.work = [i \in DOMAIN items \cup
                                           (first .. (first + n - 1)) |->
                                        IF i \in DOMAIN items THEN items[i]
                                        ELSE s.rows[i - first + 1]]],
                    "flushed")
        /\ UNCHANGED <<labels, items, nuuid, nops, q, r, seen>>

\* db.session.commit(), second half: COMMIT
commit_add_recurring_item(t) ==
    LET s == session[t]
    IN  /\ s.pc = "flushed"
        /\ s.req.op = "add_recurring_item"
        /\ items' = s.work
        /\ lock' = 0
        /\ Respond(t, s, 201, "")
        /\ UNCHANGED <<labels, nuuid, nops, q, r, seen>>

\* the anchor as the handler has assigned it before its query
AssignedAnchor(s) ==
    OverriddenAnchor(s.item, s.req.label_id, s.req.type, s.req.description,
                     s.req.amount, s.req.instant)

\* new_due_date: the date of the form, or else item.due_date as loaded
NewDueDate(s) ==
    IF s.req.due_date # NoDate THEN s.req.due_date ELSE s.item.due_date

\* PUT /item/recurring up to the query for the future items: the anchor is
\* loaded and the fields of the form are assigned to it
begin_edit_recurring_items(t, id, label_id, type, description, amount, due_date, header) ==
    LET s == Taken(t, [NoRequest EXCEPT !.op = "edit_recurring_items",
                          !.id = id, !.label_id = label_id, !.type = type,
                          !.description = description, !.amount = amount,
                          !.due_date = due_date,
                          !.header = header,
                          !.zone = get_user_timezone(header),
                          !.instant = now])
    IN  /\ CanTake(t)
        /\ nops' = nops + 1
        /\ IF id \notin DOMAIN items
           THEN Respond(t, s, 404, "id")
           ELSE IF NotRecurring(items[id])
           THEN Respond(t, s, 400, "id")
           ELSE IF label_id # 0 /\ LabelMissing(label_id)
           THEN Respond(t, s, 404, "label_id")
           ELSE IF due_date = BadDate
           THEN Respond(t, s, 400, "due_date")
           ELSE IF amount = BadAmount
           THEN Respond(t, s, 400, "amount")
           ELSE Continue(t, [s EXCEPT
                                !.req.recurrence_id = items[id].recurrence_id,
                                !.item = items[id], !.base = items],
                         "loaded")
        /\ UNCHANGED <<labels, items, nuuid, q, r, seen, lock>>

\* the query for the future items: the session flushes the anchor first (an
\* UPDATE by id, which fails with StaleDataError when the row is gone), then
\* the SELECT compares the stored rows with item.recurrence_id and
\* item.due_date as the session has them
flush_edit_recurring_items(t) ==
    LET s == session[t]
        id == s.req.id
        item == AssignedAnchor(s)
        flushed == [items EXCEPT ![id] = NetWrite(items[id], s.item, item)]
    IN  /\ s.pc = "loaded"
        /\ s.req.op = "edit_recurring_items"
        /\ lock = 0
        /\ IF id \notin DOMAIN items
           THEN Respond(t, s, 500, "") /\ UNCHANGED lock
           ELSE /\ lock' = t
                /\ Continue(t, [s EXCEPT
                                   !.work = flushed,
                                   !.future =
                                      EditFutureItems(flushed,
                                                      item.recurrence_id,
                                                      item.due_date)],
                            "flushed")
        /\ UNCHANGED <<labels, items, nuuid, nops, q, r, seen>>

\* the table after the loop over future_items and the UPDATEs of the commit;
\* the anchor among them is the object the session loaded first
SessionEditedRows(s) ==
    LET id == s.req.id
        item == AssignedAnchor(s)
    IN  [i \in DOMAIN s.work |->
            IF i \notin s.future THEN s.work[i]
            ELSE IF i = id
            THEN NetWrite(s.work[i], item,
                          UpdatedFutureRow(item, i, item, id, NewDueDate(s),
                                           s.req.zone, s.req.instant))
            ELSE UpdatedFutureRow(s.work[i], i, item, id, NewDueDate(s),
                                  s.req.zone, s.req.instant)]

\* the loop over future_items and db.session.commit()
commit_edit_recurring_items(t) ==
    LET s == session[t]
    IN  /\ s.pc = "flushed"
        /\ s.req.op = "edit_recurring_items"
        /\ items' = SessionEditedRows(s)
        /\ lock' = 0
        /\ Respond(t, s, 200, "")
        /\ UNCHANGED <<labels, nuuid, nops, q, r, seen>>

\* DELETE /item/recurring up to the query for the remaining items: the
\* anchor and the future items are loaded and the latter marked for deletion
begin_remove_recurring_items(t, id) ==
    LET s == Taken(t, [NoRequest EXCEPT !.op = "remove_recurring_items",
                          !.id = id, !.instant = now])
    IN  /\ CanTake(t)
        /\ nops' = nops + 1
        /\ IF id \notin DOMAIN items
           THEN Respond(t, s, 404, "id")
           ELSE IF NotRecurring(items[id])
           THEN Respond(t, s, 400, "id")
           ELSE Continue(t, [s EXCEPT
                                !.req.recurrence_id = items[id].recurrence_id,
                                !.item = items[id], !.base = items,
                                !.future =
                                   DeleteFutureItems(items,
                                                     items[id].recurrence_id,
                                                     items[id].due_date)],
                         "loaded")
        /\ UNCHANGED <<labels, items, nuuid, q, r, seen, lock>>

\* the query for the remaining items: the session flushes the DELETEs first,
\* if there are any (a row already gone is a warning, not an error)
flush_remove_recurring_items(t) ==
    LET s == session[t]
        kept == Restrict(items, DOMAIN items \ s.future)
        remaining == RemainingItems(kept, s.item.recurrence_id,
                                    s.item.due_date)
    IN  /\ s.pc = "loaded"
        /\ s.req.op = "remove_recurring_items"
        /\ s.future # {} => lock = 0
        /\ lock' = IF s.future # {} THEN t ELSE lock
        /\ \E remaining_items \in OrderedByDueDate(kept, remaining) :
              Continue(t, [s EXCEPT !.work = kept,
                                    !.remaining = remaining_items,
                                    !.rows = Restrict(kept, remaining)],
                       "flushed")
        /\ UNCHANGED <<labels, items, nuuid, nops, q, r, seen>>

\* months as the loop assigns it to remaining item i
AssignedMonths(s, i) ==
    RenumberedMonths(Len(s.remaining), Position(s.remaining, i))

\* the remaining items whose months the commit has to UPDATE
RenumberedItems(s) ==
    {i \in DOMAIN s.rows :
        AssignedMonths(s, i) # (IF i = s.req.id THEN s.item.months
                                ELSE s.rows[i].months)}

\* the renumbering loop and db.session.commit(); the UPDATE of a row that is
\* gone fails with StaleDataError
commit_remove_recurring_items(t) ==
    LET s == session[t]
        kept == Restrict(items, DOMAIN items \ s.future)
    IN  /\ s.pc = "flushed"
        /\ s.req.op = "remove_recurring_items"
        /\ RenumberedItems(s) # {} => lock \in {0, t}
        /\ lock' = IF lock = t THEN 0 ELSE lock
        /\ IF RenumberedItems(s) \ DOMAIN kept # {}
           THEN Respond(t, s, 500, "") /\ UNCHANGED items
           ELSE /\ items' = [i \in DOMAIN kept |->
                                IF i \in RenumberedItems(s)
                                THEN [kept[i] EXCEPT
                                         !.months = AssignedMonths(s, i)]
                                ELSE kept[i]]
                /\ Respond(t, s, 200, "")
        /\ UNCHANGED <<labels, nuuid, nops, q, r, seen>>

(***************************************************************************)
(* Inputs of the requests.  An absent optional form field is "", 0 or      *)
(* NoDate: the handlers test the fields for truthiness.                    *)
(***************************************************************************)
LabelNames == {"Casa", "Lazer"}
CaseNames == {"Casa", "casa"}
LabelIds == 1..2
Types == {"A Pagar", "Pago", "Rendimentos"}
Dates == {<<2023, 12, 31>>, <<2024, 1, 31>>, <<2024, 2, 28>>}
Headers == {"America/Sao_Paulo", "Asia/Tokyo"}
ItemIds == 1..MaxItems
MonthCounts == 1..MaxItems

(***************************************************************************)
(* Spec: the life of recurring series: created, edited and pruned as a     *)
(* series, and their items re-dated or deleted one by one.                 *)
(***************************************************************************)
AddLabel ==
    \E name \in {"Casa"} : add_label(name, "false")

AddRecurringItem ==
    /\ nops < MaxOps
    /\ \E label_id \in LabelIds, due_date \in Dates, months \in MonthCounts :
          add_recurring_item(label_id, "A Pagar", "Aluguel", 100, due_date,
                             months, "America/Sao_Paulo")

EditRecurringItems ==
    /\ nops < MaxOps
    /\ \E id \in ItemIds, type \in {"", "Pago"},
          due_date \in {NoDate} \cup Dates :
          edit_recurring_items(id, 0, type, "", 0, due_date,
                               "America/Sao_Paulo")

RemoveRecurringItems ==
    /\ nops < MaxOps
    /\ \E id \in ItemIds : remove_recurring_items(id)

EditItem ==
    /\ nops < MaxOps
    /\ \E id \in ItemIds, due_date \in Dates :
          edit_item(id, 0, "", "", 0, due_date, "America/Sao_Paulo")

DeleteItem ==
    /\ nops < MaxOps
    /\ \E id \in ItemIds : delete_item(id)

Next ==
    \/ AddLabel
    \/ AddRecurringItem
    \/ EditRecurringItems
    \/ RemoveRecurringItems
    \/ EditItem
    \/ DeleteItem

Spec == Init /\ [][Next]_vars

(***************************************************************************)
(* SpecItems: every item request, single items and series alike, from two  *)
(* time zones.                                                             *)
(***************************************************************************)
ItemsAddLabel ==
    \E name \in {"Casa"} : add_label(name, "false")

ItemsDeleteLabel ==
    /\ nops < MaxItemOps
    /\ \E id \in {1} : delete_label(id)

ItemsAddRecurringItem ==
    /\ nops < MaxItemOps
    /\ \E type \in Types, months \in MonthCounts, header \in Headers :
          add_recurring_item(1, type, "Aluguel", 100, <<2024, 1, 31>>,
                             months, header)

ItemsEditRecurringItems ==
    /\ nops < MaxItemOps
    /\ \E id \in ItemIds, type \in {""} \cup Types,
          due_date \in {NoDate, <<2024, 2, 28>>}, header \in Headers :
          edit_recurring_items(id, 0, type, "", 0, due_date, header)

ItemsRemoveRecurringItems ==
    /\ nops < MaxItemOps
    /\ \E id \in ItemIds : remove_recurring_items(id)

ItemsAddItem ==
    /\ nops < MaxItemOps
    /\ \E type \in Types, header \in Headers :
          add_item(1, type, "Mercado", 250, <<2024, 1, 31>>, header)

ItemsEditItem ==
    /\ nops < MaxItemOps
    /\ \E id \in ItemIds, type \in {""} \cup Types,
          due_date \in {NoDate, <<2024, 2, 28>>}, header \in Headers :
          edit_item(id, 0, type, "", 0, due_date, header)

ItemsEditItemStatus ==
    /\ nops < MaxItemOps
    /\ \E id \in ItemIds, type \in Types, header \in Headers :
          edit_item_status(id, type, header)

ItemsDeleteItem ==
    /\ nops < MaxItemOps
    /\ \E id \in ItemIds : delete_item(id)

NextItems ==
    \/ ItemsAddLabel
    \/ ItemsDeleteLabel
    \/ ItemsAddRecurringItem
    \/ ItemsEditRecurringItems
    \/ ItemsRemoveRecurringItems
    \/ ItemsAddItem
    \/ ItemsEditItem
    \/ ItemsEditItemStatus
    \/ ItemsDeleteItem

SpecItems == Init /\ [][NextItems]_vars

(***************************************************************************)
(* SpecFields: series whose label, description and amount are edited,      *)
(* while labels come and go.                                               *)
(***************************************************************************)
FieldsAddLabel ==
    \E name \in LabelNames : add_label(name, "false")

FieldsDeleteLabel ==
    /\ nops < MaxFieldOps
    /\ \E id \in LabelIds : delete_label(id)

FieldsAddRecurringItem ==
    /\ nops < MaxFieldOps
    /\ \E label_id \in LabelIds, months \in MonthCounts :
          add_recurring_item(label_id, "A Pagar", "Aluguel", 100,
                             <<2024, 1, 31>>, months, "UTC")

FieldsEditRecurringItems ==
    /\ nops < MaxFieldOps
    /\ \E id \in ItemIds, label_id \in {0} \cup LabelIds,
          description \in {"", "Internet"}, amount \in {0, 250} :
          edit_recurring_items(id, label_id, "", description, amount,
                               NoDate, "UTC")

NextFields ==
    \/ FieldsAddLabel
    \/ FieldsDeleteLabel
    \/ FieldsAddRecurringItem
    \/ FieldsEditRecurringItems

SpecFields == Init /\ [][NextFields]_vars

(***************************************************************************)
(* SpecStatus: calculate_due_status called once on an argument drawn from  *)
(* due dates around the clock, time zone headers, item types and instants. *)
(***************************************************************************)
QueryDates ==
    {<<2024, 1, d>> : d \in 28..31} \cup {<<2024, 2, d>> : d \in 1..MaxAhead}

QueryHeaders == Headers \cup {"UTC", "Mars/Olympus"}

QueryTypes == Types \cup {"income", "paid-expenses"}

QueryInstants == {StartInstant, StartInstant + 3}

InitStatus ==
    /\ labels = << >>
    /\ items = << >>
    /\ nuuid = 0
    /\ nops = 0
    /\ last = NoRequest
    /\ pre = << >>
    /\ pre_labels = << >>
    /\ seen = NoAnswer
    /\ session = [t \in Threads |-> Idle]
    /\ lock = 0
    /\ q \in [due_date : QueryDates, zone : QueryHeaders, type : QueryTypes,
              instant : QueryInstants]
    /\ r = NoResult

NextStatus == Calculate

SpecStatus == InitStatus /\ [][NextStatus]_vars

(***************************************************************************)
(* Properties of the recurring series.                                     *)
(***************************************************************************)
Created == last.op = "add_recurring_item" /\ last.code = 201
Edited == last.op = "edit_recurring_items" /\ last.code = 200
Removed == last.op = "remove_recurring_items" /\ last.code = 200

\* rows present now and absent before the last request
NewIds == DOMAIN items \ DOMAIN pre

\* the anchor's series as it was before the last request
SeriesBefore == {i \in DOMAIN pre :
                    pre[i].recurrence_id = pre[last.id].recurrence_id}

DaysBetween(a, b) == ToOrdinal(b) - ToOrdinal(a)

\* C1: a recurring create with start date d and count N >= 1 stores exactly
\* N new items; the k-th of them (k = 0..N-1) is due d + k calendar months,
\* counted from d itself and clamped to the last day of the target month
\* (2024-01-31, 2024-02-29, 2024-03-31; 2023-12-31, 2024-01-31, 2024-02-29).
C1_CreateDueDates ==
    (Created /\ last.months >= 1) =>
        /\ Cardinality(NewIds) = last.months
        /\ NewIds = last.id .. (last.id + last.months - 1)
        /\ \A k \in 0..(last.months - 1) :
              LET due == items[last.id + k].due_date
              IN  /\ due = AddMonths(last.due_date, k)
                  /\ (last.due_date = <<2024, 1, 31>> /\ k = 1)
                        => due = <<2024, 2, 29>>
                  /\ (last.due_date = <<2024, 1, 31>> /\ k = 2)
                        => due = <<2024, 3, 31>>
                  /\ (last.due_date = <<2023, 12, 31>> /\ k = 1)
                        => due = <<2024, 1, 31>>
                  /\ (last.due_date = <<2023, 12, 31>> /\ k = 2)
                        => due = <<2024, 2, 29>>
                  /\ (last.due_date = <<2024, 2, 28>> /\ k = 1)
                        => due = <<2024, 3, 28>>

C1_Witness ==
    /\ Created
    /\ last.months = 3
    /\ last.due_date = <<2024, 1, 31>>
    /\ items[last.id + 2].due_date = <<2024, 3, 31>>

\* C2: the N items of one recurring create all carry the same new
\* recurrence_id, which no item stored before the request carries, and their
\* months values are N, N-1, ..., 1 in creation order: the earliest due date
\* has N and the latest has 1.
C2_CreateSeriesIdAndMonths ==
    (Created /\ last.months >= 1) =>
        /\ last.recurrence_id # 0
        /\ \A i \in NewIds : items[i].recurrence_id = last.recurrence_id
        /\ \A i \in DOMAIN pre : pre[i].recurrence_id # last.recurrence_id
        /\ \A k \in 0..(last.months - 1) :
              items[last.id + k].months = last.months - k
        /\ \A i, j \in NewIds :
              ToOrdinal(items[i].due_date) < ToOrdinal(items[j].due_date)
                 => items[i].months > items[j].months

C2_Witness ==
    /\ Created
    /\ last.months = 2
    /\ \E i \in DOMAIN pre : pre[i].recurrence_id # 0

SeriesAfter == {i \in DOMAIN items :
                   items[i].recurrence_id = last.recurrence_id}

\* C4: after a recurring delete the survivors of the series are numbered by
\* ascending due date, months = (number of survivors) - rank + 1: the months
\* values are 1..survivors, an earlier due date has a larger value, and the
\* anchor, the latest survivor, has 1.
C4_RenumberedAnchorLast ==
    Removed =>
        /\ items[last.id].months = 1
        /\ {items[i].months : i \in SeriesAfter}
              = 1..Cardinality(SeriesAfter)
        /\ \A i, j \in SeriesAfter :
              ToOrdinal(items[i].due_date) < ToOrdinal(items[j].due_date)
                 => items[i].months > items[j].months

\* the items the edit treats as future: the anchor's series from the
\* anchor's stored due date on
FutureBefore == {i \in SeriesBefore :
                    ToOrdinal(pre[i].due_date)
                       >= ToOrdinal(pre[last.id].due_date)}

\* C5: a recurring edit that changes the anchor's due date moves every
\* future item by as many days as it moves the anchor.
C5_SameDelta ==
    (Edited /\ last.due_date # NoDate
            /\ last.due_date # pre[last.id].due_date) =>
        \A f \in FutureBefore :
            DaysBetween(pre[f].due_date, items[f].due_date)
               = DaysBetween(pre[last.id].due_date, items[last.id].due_date)

\* C6: a recurring edit leaves every item of the series that was due
\* strictly before the anchor's stored due date as it was, field by field.
C6_EarlierUntouched ==
    Edited =>
        \A i \in SeriesBefore :
            ToOrdinal(pre[i].due_date) < ToOrdinal(pre[last.id].due_date)
               => (i \in DOMAIN items /\ items[i] = pre[i])

C6_Witness ==
    /\ Edited
    /\ last.due_date # NoDate
    /\ last.type # ""
    /\ \E i \in SeriesBefore :
          /\ ToOrdinal(pre[i].due_date) < ToOrdinal(pre[last.id].due_date)
          /\ ToOrdinal(last.due_date) < ToOrdinal(pre[i].due_date)

\* C7: after a recurring edit the anchor and every item of its series that
\* was due on or after the anchor's stored due date have the anchor's label,
\* type, description and amount, and the due status that calculate_due_status
\* gives for their new due date, the request's time zone and their new type.
C7_FuturePropagated ==
    Edited =>
        \A f \in FutureBefore :
            /\ items[f].label_id = items[last.id].label_id
            /\ items[f].type = items[last.id].type
            /\ items[f].description = items[last.id].description
            /\ items[f].amount = items[last.id].amount
            /\ items[f].due_status =
                  calculate_due_status(items[f].due_date, last.zone,
                                       items[f].type, last.instant)

(***************************************************************************)
(* Properties of the due status.                                           *)
(***************************************************************************)
IncomeTypes == {"income", "Rendimentos"}
PaidTypes == {"paid-expenses", "Pago"}
DateLabels == {"VENCIDO", "VENCE HOJE", "VENCE AMANHA", "A VENCER EM 2 DIAS",
               "A VENCER EM 3 DIAS", "A PAGAR"}

Calculated == r # NoResult

\* due date (midnight UTC) and instant as calendar days of the observer
QueryDelta ==
    LET off == UtcOffset(get_user_timezone(q.zone))
    IN  ((ToOrdinal(q.due_date) * 24 + off) \div 24)
           - ((q.instant + off) \div 24)

\* C8: for a payable item the due status is decided by delta alone, the due
\* date and today both taken as calendar days in the observer's zone:
\* delta < 0 VENCIDO, 0 VENCE HOJE, 1 VENCE AMANHA, 2 or 3 A VENCER EM delta
\* DIAS, above 3 A PAGAR.
C8_StatusByDelta ==
    (Calculated /\ q.type \notin IncomeTypes \cup PaidTypes) =>
        /\ (QueryDelta < 0) <=> (r = "VENCIDO")
        /\ (QueryDelta = 0) <=> (r = "VENCE HOJE")
        /\ (QueryDelta = 1) <=> (r = "VENCE AMANHA")
        /\ (QueryDelta = 2) <=> (r = "A VENCER EM 2 DIAS")
        /\ (QueryDelta = 3) <=> (r = "A VENCER EM 3 DIAS")
        /\ (QueryDelta > 3) <=> (r = "A PAGAR")

C8_Witness ==
    /\ Calculated
    /\ q.type = "A Pagar"
    /\ QueryDelta = 3
    /\ r = "A VENCER EM 3 DIAS"

\* C9: an income item has the empty due status and a paid item has PAGO,
\* whatever the due date and the time zone: the type is looked at before any
\* date is compared.
C9_TypeBeforeDate ==
    Calculated =>
        /\ q.type \in IncomeTypes => r = ""
        /\ q.type \in PaidTypes => r = "PAGO"

C9_Witness ==
    /\ Calculated
    /\ q.type = "Pago"
    /\ QueryDelta < 0
    /\ r = "PAGO"

\* C10: every stored item that is not income has a non-empty due status
\* that fits its type (PAGO for a paid item, one of the date labels for a
\* payable one), and every income item has the empty due status.
C10_StatusFitsType ==
    \A i \in DOMAIN items :
        IF items[i].type \in IncomeTypes THEN items[i].due_status = ""
        ELSE IF items[i].type \in PaidTypes THEN items[i].due_status = "PAGO"
        ELSE items[i].due_status \in DateLabels

C10_Witness ==
    /\ last.op = "edit_item_status"
    /\ last.code = 200
    /\ pre[last.id].type = "A Pagar"
    /\ pre[last.id].recurrence_id # 0
    /\ items[last.id].type = "Pago"
    /\ items[last.id].due_status = "PAGO"

(***************************************************************************)
(* Properties of the stored series.                                        *)
(***************************************************************************)
\* C11: the items that share a recurrence_id are totally ordered by due
\* date: no two distinct items of one series are due on the same day,
\* whatever recurring creates, edits and deletes and single-item edits and
\* deletes were handled.
C11_SeriesTotalOrder ==
    \A i, j \in DOMAIN items :
        (i # j /\ items[i].recurrence_id # 0
               /\ items[i].recurrence_id = items[j].recurrence_id)
           => items[i].due_date # items[j].due_date

(***************************************************************************)
(* SpecQuery: series created, re-dated and pruned, and read back by their  *)
(* recurrence_id from three TimeZone headers, one of them unknown to pytz. *)
(***************************************************************************)
ReaderHeaders == {"UTC", "Asia/Tokyo", "Mars/Olympus"}
RecurrenceIds == 1..2

QueryAddLabel ==
    \E name \in {"Casa"} : add_label(name, "false")

QueryAddRecurringItem ==
    /\ nops < MaxQueryOps
    /\ \E due_date \in {<<2023, 12, 31>>, <<2024, 1, 31>>},
          months \in MonthCounts :
          add_recurring_item(1, "A Pagar", "Aluguel", 100, due_date, months,
                             "UTC")

QueryEditRecurringItems ==
    /\ nops < MaxQueryOps
    /\ \E id \in ItemIds, due_date \in {NoDate, <<2023, 12, 31>>} :
          edit_recurring_items(id, 0, "", "", 0, due_date, "UTC")

QueryRemoveRecurringItems ==
    /\ nops < MaxQueryOps
    /\ \E id \in ItemIds : remove_recurring_items(id)

QueryGetRecurringItems ==
    \E recurrence_id \in RecurrenceIds, header \in ReaderHeaders :
        get_recurring_items_by_recurrence_id(recurrence_id, header)

NextQuery ==
    \/ QueryAddLabel
    \/ QueryAddRecurringItem
    \/ QueryEditRecurringItems
    \/ QueryRemoveRecurringItems
    \/ QueryGetRecurringItems

SpecQuery == Init /\ [][NextQuery]_vars

(***************************************************************************)
(* Properties of the series read back.                                     *)
(***************************************************************************)
\* the last answer was given after the last request, to a header pytz knows
Answered == seen.code # 0 /\ seen.nops = nops /\ seen.header \in KnownZones

\* months since year 0 of a date
MonthIndex(d) == d[1] * 12 + d[2]

\* C14: a recurring create with count N >= 1 followed at once by a query by
\* the recurrence_id it returned answers with exactly the N created items
\* and no others; in the order of the answer their due dates ascend
\* strictly, each in the calendar month after the one before, the k-th being
\* the start date plus k - 1 months.
C14_RoundTrip ==
    (Created /\ last.months >= 1 /\ Answered
             /\ seen.recurrence_id = last.recurrence_id) =>
        /\ seen.code = 200
        /\ Len(seen.rows) = last.months
        /\ {seen.rows[k].id : k \in 1..Len(seen.rows)} = NewIds
        /\ \A k \in 1..Len(seen.rows) :
              /\ seen.rows[k].recurrence_id = last.recurrence_id
              /\ seen.rows[k].due_date = AddMonths(last.due_date, k - 1)
        /\ \A k \in 1..(Len(seen.rows) - 1) :
              /\ ToOrdinal(seen.rows[k].due_date)
                    < ToOrdinal(seen.rows[k + 1].due_date)
              /\ MonthIndex(seen.rows[k + 1].due_date)
                    = MonthIndex(seen.rows[k].due_date) + 1

C14_Witness ==
    /\ Created
    /\ last.months = 3
    /\ Answered
    /\ seen.recurrence_id = last.recurrence_id
    /\ Len(seen.rows) = 3
    /\ seen.rows[3].due_date = <<2024, 3, 31>>

\* C15: the query by recurrence_id answers with the items of the series in
\* ascending due date, whatever recurring creates, edits and deletes came
\* before it.
C15_AnswerAscending ==
    (Answered /\ seen.code = 200) =>
        \A j, k \in 1..Len(seen.rows) :
            j < k => ToOrdinal(seen.rows[j].due_date)
                        <= ToOrdinal(seen.rows[k].due_date)

(***************************************************************************)
(* SpecErrors: requests that name missing items and labels, carry a due    *)
(* date or an amount that does not parse, or a label name already taken,   *)
(* among requests that succeed.                                            *)
(***************************************************************************)
ErrorsAddLabel ==
    \E name \in CaseNames, is_default_value \in {"false", "yes"} :
        add_label(name, is_default_value)

ErrorsEditLabel ==
    \E id \in LabelIds, name \in {""} \cup CaseNames,
       is_default_value \in {"", "true", "yes"} :
        edit_label(id, name, is_default_value)

ErrorsAddItem ==
    /\ nops < MaxErrorOps
    /\ \E label_id \in LabelIds :
          add_item(label_id, "A Pagar", "Mercado", 250, <<2024, 1, 31>>,
                   "UTC")

ErrorsAddRecurringItem ==
    /\ nops < MaxErrorOps
    /\ \E label_id \in LabelIds :
          add_recurring_item(label_id, "A Pagar", "Aluguel", 100,
                             <<2024, 1, 31>>, 2, "UTC")

ErrorsEditItem ==
    /\ nops < MaxErrorOps
    /\ \E id \in ItemIds, label_id \in {0} \cup LabelIds, type \in {"", "Pago"},
          amount \in {0, BadAmount},
          due_date \in {NoDate, BadDate, <<2024, 2, 28>>} :
          edit_item(id, label_id, type, "", amount, due_date, "UTC")

ErrorsEditRecurringItems ==
    /\ nops < MaxErrorOps
    /\ \E id \in ItemIds, label_id \in {0} \cup LabelIds, type \in {"", "Pago"},
          amount \in {0, BadAmount},
          due_date \in {NoDate, BadDate, <<2024, 2, 28>>} :
          edit_recurring_items(id, label_id, type, "", amount, due_date,
                               "UTC")

ErrorsRemoveRecurringItems ==
    /\ nops < MaxErrorOps
    /\ \E id \in ItemIds : remove_recurring_items(id)

NextErrors ==
    \/ ErrorsAddLabel
    \/ ErrorsEditLabel
    \/ ErrorsAddItem
    \/ ErrorsAddRecurringItem
    \/ ErrorsEditItem
    \/ ErrorsEditRecurringItems
    \/ ErrorsRemoveRecurringItems

SpecErrors == Init /\ [][NextErrors]_vars

(***************************************************************************)
(* Properties of the error responses.                                      *)
(***************************************************************************)
Failed == last.code \notin {0, 200, 201}
StoreUntouched == items = pre /\ labels = pre_labels
RecurringEdit == last.op = "edit_recurring_items"
RecurringDelete == last.op = "remove_recurring_items"

\* C16: a recurring edit or a recurring delete of a stored item that has no
\* recurrence_id is refused as a validation failure (400 on the id, not
\* 404), whatever else the request carries, and leaves every stored item
\* and label as it was.
C16_NoSeriesIsValidationFailure ==
    ((RecurringEdit \/ RecurringDelete) /\ last.id \in DOMAIN pre
        /\ pre[last.id].recurrence_id = 0) =>
        /\ last.code = 400
        /\ last.loc = "id"
        /\ StoreUntouched

C16_Witness ==
    /\ RecurringEdit
    /\ last.id \in DOMAIN pre
    /\ pre[last.id].recurrence_id = 0
    /\ last.label_id # 0
    /\ last.label_id \notin DOMAIN pre_labels
    /\ last.type = "Pago"
    /\ last.code = 400

\* the fields the request asked to change, applied to the stored row
Requested(row) ==
    [row EXCEPT !.label_id = IF last.label_id # 0 THEN last.label_id ELSE @,
                !.type = IF last.type # "" THEN last.type ELSE @]

\* C17: a request that ends in an error response leaves the committed items
\* and labels exactly as they were before it, also when the handler had
\* already assigned fields to the record in its session: a recurring edit or
\* an item edit that applied the label (and the type) and then met a due date
\* or an amount that does not parse, a label edit that applied is_default
\* and then met a name already taken.
C17_ErrorsLeaveStore ==
    Failed => StoreUntouched

C17_Witness ==
    /\ RecurringEdit
    /\ last.code = 400
    /\ last.loc = "due_date"
    /\ last.label_id \in DOMAIN labels
    /\ last.label_id # pre[last.id].label_id
    /\ Requested(pre[last.id]) # pre[last.id]
    /\ items = pre

\* C18: a recurring create that names a label id that is not stored fails
\* with 404 and stores no item.  A recurring edit that names such a label id
\* changes nothing, and fails with 404 when its item is stored and belongs
\* to a series (a missing item is reported first, also as 404, and an item
\* without series as the validation failure of C16).  A recurring edit or
\* delete of an item id that is not stored fails with 404 and changes
\* nothing.
C18_NotFound ==
    /\ (last.op = "add_recurring_item"
           /\ last.label_id \notin DOMAIN pre_labels) =>
          (last.code = 404 /\ StoreUntouched)
    /\ (RecurringEdit /\ last.label_id # 0
           /\ last.label_id \notin DOMAIN pre_labels) =>
          /\ StoreUntouched
          /\ last.code \in {400, 404}
          /\ (last.id \in DOMAIN pre /\ pre[last.id].recurrence_id # 0)
                => last.code = 404
          /\ last.code = 400 =>
                (last.id \in DOMAIN pre /\ pre[last.id].recurrence_id = 0)
    /\ ((RecurringEdit \/ RecurringDelete) /\ last.id \notin DOMAIN pre) =>
          (last.code = 404 /\ StoreUntouched)

C18_Witness ==
    /\ RecurringEdit
    /\ last.id \in DOMAIN pre
    /\ pre[last.id].recurrence_id # 0
    /\ last.label_id # 0
    /\ last.label_id \notin DOMAIN pre_labels
    /\ last.type = "Pago"
    /\ last.due_date = <<2024, 2, 28>>
    /\ last.code = 404

(***************************************************************************)
(* SpecLabels: labels created and renamed by requests that two worker      *)
(* threads handle at the same time, under names that differ by case only.  *)
(***************************************************************************)
LabelsBeginAddLabel ==
    \E t \in Threads, name \in CaseNames, is_default_value \in {"false", "yes"} :
        begin_add_label(t, name, is_default_value)

LabelsCommitAddLabel ==
    \E t \in Threads : commit_add_label(t)

LabelsBeginEditLabel ==
    \E t \in Threads, id \in LabelIds, name \in {""} \cup CaseNames,
       is_default_value \in {"", "true"} :
        begin_edit_label(t, id, name, is_default_value)

LabelsCommitEditLabel ==
    \E t \in Threads : commit_edit_label(t)

NextLabels ==
    \/ LabelsBeginAddLabel
    \/ LabelsCommitAddLabel
    \/ LabelsBeginEditLabel
    \/ LabelsCommitEditLabel

SpecLabels == Init /\ [][NextLabels]_vars

(***************************************************************************)
(* Properties of the labels.                                               *)
(***************************************************************************)
NamesOf(table) == {table[l].name : l \in DOMAIN table}

\* C19: a label create whose name is, letter for letter, the name of a
\* stored label fails with 400 and stores nothing: the labels are as they
\* were.  The error is the one on the name when is_default is "true" or
\* "false" (is_default is validated first).  A name that differs by case
\* only is another name.
C19_DuplicateNameRefused ==
    (last.op = "add_label" /\ last.name \in NamesOf(pre_labels)) =>
        /\ last.code = 400
        /\ last.is_default \in {"true", "false"} => last.loc = "name"
        /\ StoreUntouched

C19_Witness ==
    /\ last.op = "add_label"
    /\ last.name = "Casa"
    /\ last.is_default = "false"
    /\ last.code = 400
    /\ last.loc = "name"
    /\ NamesOf(labels) = {"Casa", "casa"}

\* C20: no two distinct labels have the same name, in every state that
\* label creates and renames reach, however their name checks and their
\* writes interleave; and a rename of a label to the name it has is
\* accepted.
C20_NamesUnique ==
    /\ \A l1, l2 \in DOMAIN labels :
          l1 # l2 => labels[l1].name # labels[l2].name
    /\ (last.op = "edit_label" /\ last.id \in DOMAIN pre_labels
           /\ last.name = pre_labels[last.id].name
           /\ last.is_default \in {"", "true", "false"}) =>
          last.code = 200

\* two requests passed the name check with the same name, and the
\* second write was refused
C20_Witness ==
    /\ last.code = 500
    /\ last.name \in NamesOf(labels)
    /\ \E t \in Threads :
          /\ session[t].pc = "done"
          /\ session[t].req.code \in {200, 201}
          /\ session[t].req.name = last.name

(***************************************************************************)
(* SpecShared: one series created, edited, pruned and read by requests     *)
(* that two worker threads handle at the same time.                        *)
(***************************************************************************)
SharedAddLabel ==
    /\ labels = << >>
    /\ \E name \in {"Casa"} : add_label(name, "false")

SharedBeginAddRecurringItem ==
    /\ nops < MaxSharedOps
    /\ \E t \in Threads, months \in {2, MaxItems} :
          begin_add_recurring_item(t, 1, "A Pagar", "Aluguel", 100,
                                   <<2024, 1, 31>>, months, "UTC")

SharedFlushAddRecurringItem ==
    \E t \in Threads : flush_add_recurring_item(t)

SharedCommitAddRecurringItem ==
    \E t \in Threads : commit_add_recurring_item(t)

SharedBeginEditRecurringItems ==
    /\ nops < MaxSharedOps
    /\ \E t \in Threads, id \in ItemIds, type \in {"", "Pago"},
          due_date \in {NoDate, <<2024, 2, 28>>} :
          begin_edit_recurring_items(t, id, 0, type, "", 0, due_date, "UTC")

SharedFlushEditRecurringItems ==
    \E t \in Threads : flush_edit_recurring_items(t)

SharedCommitEditRecurringItems ==
    \E t \in Threads : commit_edit_recurring_items(t)

SharedBeginRemoveRecurringItems ==
    /\ nops < MaxSharedOps
    /\ \E t \in Threads, id \in ItemIds :
          begin_remove_recurring_items(t, id)

SharedFlushRemoveRecurringItems ==
    \E t \in Threads : flush_remove_recurring_items(t)

SharedCommitRemoveRecurringItems ==
    \E t \in Threads : commit_remove_recurring_items(t)

SharedGetRecurringItems ==
    \E recurrence_id \in {1} :
        get_recurring_items_by_recurrence_id(recurrence_id, "UTC")

NextShared ==
    \/ SharedAddLabel
    \/ SharedBeginAddRecurringItem
    \/ SharedFlushAddRecurringItem
    \/ SharedCommitAddRecurringItem
    \/ SharedBeginEditRecurringItems
    \/ SharedFlushEditRecurringItems
    \/ SharedCommitEditRecurringItems
    \/ SharedBeginRemoveRecurringItems
    \/ SharedFlushRemoveRecurringItems
    \/ SharedCommitRemoveRecurringItems
    \/ SharedGetRecurringItems

SpecShared == Init /\ [][NextShared]_vars


(***************************************************************************)
(* Properties of the requests handled at the same time.                    *)
(***************************************************************************)
\* thread t sent the last response and has taken no request since
Doer(t) == session[t].pc = "done" /\ session[t].req = last

\* the ids of a series in a table
SeriesIn(table, recurrence_id) ==
    {i \in DOMAIN table : table[i].recurrence_id = recurrence_id}

\* C12: a recurring create, edit or delete applies its whole batch of rows
\* as one unit.  A query by recurrence_id, at whatever point of the other
\* requests it runs, answers with the series as it is in the committed
\* table of that moment, never with rows of a transaction still open; and
\* the committed table passes from the state before an operation to the
\* state after it in one step: all N rows of a create appear together,
\* all future items of an edit are rewritten together, all future items of
\* a delete go together with the renumbering of the rest.
C12_BatchAtomic ==
    /\ seen.code # 0 =>
          LET ids == SeriesIn(seen.store, seen.recurrence_id)
          IN  /\ (seen.code = 404) <=> (ids = {})
              /\ seen.code = 200 =>
                    /\ {seen.rows[k].id : k \in 1..Len(seen.rows)} = ids
                    /\ Len(seen.rows) = Cardinality(ids)
                    /\ \A k \in 1..Len(seen.rows) :
                          seen.rows[k] = ToDict(seen.store, seen.rows[k].id,
                                                seen.header)
    /\ Created =>
          /\ SeriesIn(pre, last.recurrence_id) = {}
          /\ Cardinality(SeriesIn(items, last.recurrence_id))
                = MonthsToCreate(last.months)
    /\ \A t \in Threads :
          Edited /\ Doer(t) =>
             /\ DOMAIN items = DOMAIN pre
             /\ \A i \in DOMAIN items :
                   IF i \in session[t].future \cup {last.id}
                   THEN items[i].transaction_date = last.instant
                   ELSE items[i] = pre[i]
    /\ \A t \in Threads :
          Removed /\ Doer(t) =>
             /\ DOMAIN items = DOMAIN pre \ session[t].future
             /\ \A i \in DOMAIN items :
                   IF i \in RenumberedItems(session[t])
                   THEN items[i].months = AssignedMonths(session[t], i)
                   ELSE items[i] = pre[i]

\* a query answered while an edit had flushed its anchor and not committed
C12_Witness ==
    /\ lock # 0
    /\ session[lock].req.op = "edit_recurring_items"
    /\ session[lock].req.type = "Pago"
    /\ session[lock].work # items
    /\ seen.dirty
    /\ seen.nops = nops
    /\ seen.code = 200
    /\ Len(seen.rows) = 3
    /\ \A k \in 1..3 : seen.rows[k].type = "A Pagar"

\* the tables a recurring edit or delete, handled alone, makes of a table
SerialResults(req, table) ==
    IF req.id \notin DOMAIN table \/ NotRecurring(table[req.id])
    THEN {table}
    ELSE IF req.op = "edit_recurring_items"
    THEN {EditedRows(table, req.id, req.label_id, req.type, req.description,
                     req.amount, req.due_date, req.zone, req.instant)}
    ELSE LET item == table[req.id]
             kept == Restrict(table,
                        DOMAIN table \ DeleteFutureItems(table,
                                          item.recurrence_id, item.due_date))
         IN  {RenumberedRows(kept, remaining_items) :
                remaining_items \in
                   OrderedByDueDate(kept,
                      RemainingItems(kept, item.recurrence_id,
                                     item.due_date))}

\* both threads have answered 200 to a recurring edit or delete of one
\* series, and both requests came in on the same committed table
BothDone ==
    /\ \A t \in Threads :
          /\ session[t].pc = "done"
          /\ session[t].req.code = 200
          /\ session[t].req.op \in {"edit_recurring_items",
                                    "remove_recurring_items"}
    /\ session[1].req.recurrence_id = session[2].req.recurrence_id
    /\ session[1].base = session[2].base

\* C13: two recurring operations on one series that are handled at the same
\* time leave the series as one of the two serial orders would: the
\* committed table is what one request, handled alone, makes of what the
\* other request, handled alone, makes of the table they both started on.
C13_Serializable ==
    BothDone =>
        items \in
           UNION {SerialResults(session[2].req, x) :
                     x \in SerialResults(session[1].req, session[1].base)}
           \cup
           UNION {SerialResults(session[1].req, x) :
                     x \in SerialResults(session[2].req, session[2].base)}

(***************************************************************************)
(* Properties of the label reference of the items.                         *)
(***************************************************************************)
\* C21: in every reachable state every stored item refers to a label that
\* exists: label_id is never NULL and never the id of a deleted label.
C21_LabelAlwaysExists ==
    \A i \in DOMAIN items : items[i].label_id \in DOMAIN labels

(***************************************************************************)
(* SpecCounts: series created with every kind of count the request schema  *)
(* lets through (none, zero, negative, positive) and edited, under         *)
(* TimeZone headers pytz knows and one it does not know.                   *)
(***************************************************************************)
CountHeaders == {"UTC", "America/Sao_Paulo", "Mars/Olympus"}
CountMonths == {NoMonths, -1, 0, 1, 2}

CountsAddLabel ==
    \E name \in {"Casa"} : add_label(name, "false")

CountsAddRecurringItem ==
    /\ nops < MaxCountOps
    /\ \E label_id \in LabelIds, months \in CountMonths,
          header \in CountHeaders :
          add_recurring_item(label_id, "A Pagar", "Aluguel", 100,
                             <<2024, 1, 31>>, months, header)

CountsEditRecurringItems ==
    /\ nops < MaxCountOps
    /\ \E id \in 1..2, type \in {"", "Pago"}, header \in CountHeaders :
          edit_recurring_items(id, 0, type, "", 0, NoDate, header)

NextCounts ==
    \/ CountsAddLabel
    \/ CountsAddRecurringItem
    \/ CountsEditRecurringItems

SpecCounts == Init /\ [][NextCounts]_vars

(***************************************************************************)
(* Properties of the TimeZone header and of the count of a new series.     *)
(***************************************************************************)
\* the request carried a TimeZone header that pytz does not know
UnknownTimeZone == last.header \notin KnownZones \cup {""}

\* C22: a create or edit request whose TimeZone header names no time zone
\* fails with an invalid-timezone error and writes nothing: it is never
\* answered with success, and the tables are as they were before it.
C22_UnknownTimeZoneRefused ==
    (last.op \in {"add_recurring_item", "edit_recurring_items"}
        /\ UnknownTimeZone)
    => /\ last.code \notin {200, 201}
       /\ StoreUntouched

\* C23: a recurring create that names no count succeeds and creates a
\* series of exactly 12 items.
C23_AbsentCountCreatesTwelve ==
    (last.op = "add_recurring_item" /\ last.months = NoMonths
        /\ last.label_id \in DOMAIN pre_labels)
    => /\ last.code = 201
       /\ Cardinality(SeriesIn(items, last.recurrence_id)) = 12

\* C24: a recurring create with the count 0 creates a series of exactly 12
\* items, which are all the rows the request has added; their months are
\* 12, 11, .., 1 in the order they were created, and their due dates are
\* the start date and the 11 months after it.
C24_ZeroCountCreatesTwelve ==
    (Created /\ last.months = 0)
    => LET S == SeriesIn(items, last.recurrence_id)
       IN  /\ Cardinality(S) = 12
           /\ S = NewIds
           /\ S = last.id .. (last.id + 11)
           /\ \A i \in S :
                 /\ items[i].months = 12 - (i - last.id)
                 /\ items[i].due_date = AddMonths(last.due_date, i - last.id)

\* a create with the count 0 has filled the empty table with 12 items
C24_Witness ==
    /\ Created
    /\ last.months = 0
    /\ pre = << >>
    /\ DOMAIN items = 1..12
    /\ items[1].months = 12
    /\ items[12].months = 1
    /\ items[12].due_date = <<2024, 12, 31>>

\* C30: a recurring create that answers with success has stored at least
\* one item that bears the new recurrence_id, whatever count it was given.
C30_SuccessHasItems ==
    Created => SeriesIn(items, last.recurrence_id) # {}

(***************************************************************************)
(* Properties of what a recurring edit or delete leaves alone.             *)
(***************************************************************************)
\* C25: a recurring edit leaves every field that its request does not
\* supply (label, type, description, amount) as it was on every item: an
\* item whose type was changed on its own keeps that type, and the due
\* status that goes with it, when an earlier anchor is edited for another
\* field.
C25_UnsuppliedFieldsKept ==
    Edited =>
        \A i \in DOMAIN pre \cap DOMAIN items :
            /\ last.label_id = 0 => items[i].label_id = pre[i].label_id
            /\ last.type = "" => items[i].type = pre[i].type
            /\ last.description = ""
                  => items[i].description = pre[i].description
            /\ last.amount = 0 => items[i].amount = pre[i].amount

\* C26: a recurring edit whose request supplies no due date leaves the due
\* date of every item as it was, whichever item of the series is the anchor
\* and whatever day of the month the series started on.
C26_DatesKeptWithoutNewDate ==
    (Edited /\ last.due_date = NoDate)
    => \A i \in DOMAIN pre \cap DOMAIN items :
          items[i].due_date = pre[i].due_date

(***************************************************************************)
(* Properties of the due status in the observer's time zone.               *)
(***************************************************************************)
\* C27: a payable item whose due date is the calendar date of the moment in
\* the observer's time zone has the status VENCE HOJE (due today), in every
\* time zone, those west of UTC included.
C27_DueTodayInEveryZone ==
    (/\ Calculated
     /\ q.type \notin IncomeTypes \cup PaidTypes
     /\ ToOrdinal(q.due_date)
           = LocalOrdinal(q.instant, get_user_timezone(q.zone)))
    => r = "VENCE HOJE"

(***************************************************************************)
(* Properties of the months countdown of a series.                         *)
(***************************************************************************)
\* C28: in every state reached by recurring creates, edits and deletes, the
\* months values of the k items of a series are the integers 1..k, each
\* used once, and an item that is due later never has a larger months value
\* than an item that is due earlier.
C28_MonthsCountDown ==
    \A recurrence_id \in 1..nuuid :
        LET S == SeriesIn(items, recurrence_id)
        IN  /\ {items[i].months : i \in S} = 1..Cardinality(S)
            /\ \A i, j \in S :
                  DateLT(items[i].due_date, items[j].due_date)
                     => items[j].months <= items[i].months

(***************************************************************************)
(* SpecFrame: series side by side with other series and with single items, *)
(* edited and pruned as series.                                            *)
(***************************************************************************)
FrameAddLabel ==
    \E name \in {"Casa"} : add_label(name, "false")

FrameAddItem ==
    /\ nops < MaxFrameOps
    /\ \E due_date \in {<<2024, 1, 31>>, <<2024, 2, 29>>} :
          add_item(1, "A Pagar", "Mercado", 250, due_date, "UTC")

FrameAddRecurringItem ==
    /\ nops < MaxFrameOps
    /\ \E months \in 1..2 :
          add_recurring_item(1, "A Pagar", "Aluguel", 100, <<2024, 1, 31>>,
                             months, "UTC")

FrameEditRecurringItems ==
    /\ nops < MaxFrameOps
    /\ \E id \in ItemIds, type \in {"", "Pago"},
          due_date \in {NoDate, <<2024, 2, 28>>} :
          edit_recurring_items(id, 0, type, "", 0, due_date, "UTC")

FrameRemoveRecurringItems ==
    /\ nops < MaxFrameOps
    /\ \E id \in ItemIds : remove_recurring_items(id)

NextFrame ==
    \/ FrameAddLabel
    \/ FrameAddItem
    \/ FrameAddRecurringItem
    \/ FrameEditRecurringItems
    \/ FrameRemoveRecurringItems

SpecFrame == Init /\ [][NextFrame]_vars

\* C29: a recurring edit or delete whose anchor is in a series adds no
\* item, moves no item into or out of a series, and leaves every item of
\* another series and every item of no series in the table exactly as it
\* was; a recurring edit leaves the series with the items it had.
C29_OtherItemsUntouched ==
    (Edited \/ Removed) =>
        /\ DOMAIN items \subseteq DOMAIN pre
        /\ \A i \in DOMAIN items :
              items[i].recurrence_id = pre[i].recurrence_id
        /\ \A i \in DOMAIN pre :
              pre[i].recurrence_id # last.recurrence_id
                 => (i \in DOMAIN items /\ items[i] = pre[i])
        /\ Edited => SeriesIn(items, last.recurrence_id)
                        = SeriesIn(pre, last.recurrence_id)

\* a recurring edit has rewritten the type and the date of its series while
\* the table held an item of another series and an item of no series, both
\* due on or after the anchor
C29_Witness ==
    /\ Edited
    /\ last.type = "Pago"
    /\ last.due_date # NoDate
    /\ items # pre
    /\ \E i, j \in DOMAIN pre :
          /\ pre[i].recurrence_id = 0
          /\ pre[j].recurrence_id \notin {0, last.recurrence_id}
          /\ DateLE(pre[last.id].due_date, pre[i].due_date)
          /\ DateLE(pre[last.id].due_date, pre[j].due_date)

=============================================================================
